---- MODULE Spec2Model ----
(***************************************************************************)
(* Model of the surveyor waypoint mission (src/waypoint_mission.py) and of *)
(* the lidar obstacle avoider (src/obstacle_avoider.py).                   *)
(*                                                                         *)
(* Mission part.  Coordinates are abstracted to whole metres along a line. *)
(* The vehicle (surveyor_library) is the environment: every                *)
(* get_control_mode() and get_data() call returns a value chosen by the    *)
(* environment.  One action is one blocking call on the vehicle together   *)
(* with the code that runs up to the next such call.                       *)
(*                                                                         *)
(* main reads the plan, waits in start_mission for Waypoint mode, builds   *)
(* data_df and then evaluates data_df[['Latitude'], ['Longitude']] (line   *)
(* 166).  The subscript is the tuple (['Latitude'], ['Longitude']), which  *)
(* DataFrame.__getitem__ looks up as one column label: the lookup raises   *)
(* on every DataFrame, so every run of main ends there with the exception  *)
(* and the loop of lines 168-205 is never entered.  Spec is that program.  *)
(* FunctionSpec is a caller of the module's functions patrol_square_area,  *)
(* avoid_obstacle and load_and_send_waypoint.                              *)
(***************************************************************************)
EXTENDS Integers, Sequences, FiniteSets, TLC

VARIABLES
    waypoints,            \* main: waypoints (read from the CSV file)
    erp,                  \* main: erp (read from the CSV file)
    index,                \* main: index
    data_df,              \* main: data_df, <<p>> once allocated with a record at p
    current_coordinates,  \* patrol_square_area: argument current_coordinates
    desired_coordinates,  \* patrol_square_area: argument desired_coordinates
    pc,                   \* position of the program
    outcome,              \* "running", or how the process ended
    issued,               \* calls on the vehicle made by the latest step
    reported,             \* what the latest get_control_mode() returned
    reads,                \* get_control_mode() calls made so far, modulo 2
    outstanding,          \* mode asked for and not yet reported by a read
    overlap,              \* latest step asked for a mode while one was outstanding
    avoid_calls           \* the calls avoid_obstacle made in the latest step, in order

missionVars == <<waypoints, erp, index, data_df, current_coordinates,
                 desired_coordinates, pc, outcome, issued, reported, reads,
                 outstanding, overlap, avoid_calls>>

\* The obstacle avoider (src/obstacle_avoider.py).
VARIABLES
    self,                 \* the ObstacleAvoiderController object
    lidar,                \* the scan the sensor is putting together: [distances, angles]
    call,                 \* the lidar_measurements of the latest compute_control call
    result,               \* what that call returned
    ctl_pc                \* "ValueError" (constructor raised), "ready", "returned"

ctlVars == <<self, lidar, call, result, ctl_pc>>


vars == <<missionVars, ctlVars>>

\* ---------------------------------------------------------------- bounds
MaxPos == 5
MaxWaypoints == 2
MaxSafe == 3          \* safe_dist ranges over 1..MaxSafe distance units
MaxLen == 2           \* readings in one scan
DistScale == 8        \* distance units per metre

Positions == 0..MaxPos
Modes == {"Standby", "Waypoint", "Station Keep", "Go To ERP"}
ModeRequests == {"set_standby_mode", "set_waypoint_mode",
                 "set_station_keep_mode", "set_erp_mode"}

Abs(x) == IF x < 0 THEN -x ELSE x
Min2(a, b) == IF a <= b THEN a ELSE b

\* The plans: up to MaxWaypoints waypoints, each at one of two sites.
WaypointSites == {0, MaxPos}
\* The ERP file holds one recovery point.
ErpLists == {<<p>> : p \in WaypointSites}
WaypointLists == UNION {[1..n -> WaypointSites] : n \in 0..MaxWaypoints}

\* The mode a mode-change request asks for.
ModeOf(request) ==
    CASE request = "set_standby_mode" -> "Standby"
      [] request = "set_waypoint_mode" -> "Waypoint"
      [] request = "set_station_keep_mode" -> "Station Keep"
      [] request = "set_erp_mode" -> "Go To ERP"
\* A read of the control mode that reports m settles a request for m.
Observe(out, m) == IF out = m THEN "none" ELSE out

\* The state main starts from (lines 154-160); nothing has been called.
MissionInit ==
    /\ waypoints \in WaypointLists
    /\ erp \in ErpLists
    /\ index = 0
    /\ data_df = <<>>
    /\ current_coordinates = 0
    /\ desired_coordinates = 0
    /\ pc = "start"
    /\ outcome = "running"
    /\ issued = {}
    /\ reported = "unset"
    /\ reads = 0
    /\ outstanding = "none"
    /\ overlap = FALSE
    /\ avoid_calls = <<>>

\* ------------------------------------------------------------------------
\* main
\* ------------------------------------------------------------------------
\* The calls one pass of start_mission's loop makes (lines 35-38): the
\* set_standby_mode of line 35 is commented out.
start_mission_calls == {"get_control_mode"}

\* start_mission: one pass of `while boat.get_control_mode() != "Waypoint"`.
start_mission(m) ==
    /\ pc = "start"
    /\ pc' = IF m = "Waypoint" THEN "allocate" ELSE "start"
    /\ reported' = m
    /\ reads' = 1 - reads
    /\ issued' = start_mission_calls
    /\ outstanding' = Observe(outstanding, m)
    /\ overlap' = FALSE
    /\ avoid_calls' = <<>>
    /\ UNCHANGED <<waypoints, erp, index, data_df, current_coordinates,
                   desired_coordinates, outcome>>
    /\ UNCHANGED ctlVars

\* allocate_data_df (lines 15-25, 165) and line 166; p is the position in
\* the record boat.get_data() returns.  The subscript of line 166 raises
\* (TypeError or InvalidIndexError, by the version of pandas): the with
\* block is left and the process ends with the uncaught exception.
allocate_data_df(p) ==
    /\ pc = "allocate"
    /\ data_df' = <<p>>
    /\ issued' = {"get_data"}
    /\ pc' = "done"
    /\ outcome' = "Exception"
    /\ overlap' = FALSE
    /\ avoid_calls' = <<>>
    /\ UNCHANGED <<waypoints, erp, index, current_coordinates,
                   desired_coordinates, reported, reads, outstanding>>
    /\ UNCHANGED ctlVars

MissionNext ==
    \/ \E m \in Modes : start_mission(m)
    \/ \E p \in Positions : allocate_data_df(p)

\* ------------------------------------------------------------------------
\* The functions of the module, called on their own
\* ------------------------------------------------------------------------
\* avoid_obstacle (lines 55-70), given what its call of is_clear returns
\* after the wait: the calls it makes before the wait ends (lines 62-64),
\* the calls it makes after it (lines 65-70), in order, and whether it
\* exits the process (sys.exit(1)) instead of returning.
avoid_obstacle_ResumesWhenBlocked(clear_after_wait) ==
    [before_wait |-> <<"set_standby_mode", "time.sleep">>,
     after_wait |-> <<IF clear_after_wait THEN "is_clear -> True" ELSE "is_clear -> False",
                      IF clear_after_wait THEN "set_erp_mode" ELSE "set_waypoint_mode">>,
     exits |-> clear_after_wait]
avoid_obstacle(clear_after_wait) ==
    [before_wait |-> <<"set_standby_mode", "time.sleep">>,
     after_wait |-> <<IF clear_after_wait THEN "is_clear -> True" ELSE "is_clear -> False",
                      IF clear_after_wait THEN "set_waypoint_mode" ELSE "set_erp_mode">>,
     exits |-> ~clear_after_wait]

\* A call of avoid_obstacle(boat) up to its wait (lines 62-64): Standby is
\* requested and the function sleeps for 10 s.  What the clearance check
\* will answer does not matter yet.
AvoidObstacle ==
    LET avoid == avoid_obstacle(TRUE) IN
    /\ pc = "idle"
    /\ avoid_calls' = avoid.before_wait
    /\ issued' = {avoid.before_wait[1]}
    /\ overlap' = (outstanding # "none")
    /\ outstanding' = ModeOf(avoid.before_wait[1])
    /\ pc' = "avoid_wait"
    /\ UNCHANGED <<waypoints, erp, index, data_df, current_coordinates,
                   desired_coordinates, outcome, reported, reads>>
    /\ UNCHANGED ctlVars

\* avoid_obstacle after the wait (lines 65-70): the clearance check and the
\* second mode request, made with no read of the control mode since the
\* request for Standby.  clear_after_wait is what is_clear returns at line 65.
AvoidObstacleAfterWait(clear_after_wait) ==
    LET avoid == avoid_obstacle(clear_after_wait) IN
    /\ pc = "avoid_wait"
    /\ avoid_calls' = avoid_calls \o avoid.after_wait
    /\ issued' = {avoid.after_wait[2]}
    /\ overlap' = (outstanding # "none")
    /\ outstanding' = ModeOf(avoid.after_wait[2])
    /\ pc' = IF avoid.exits THEN "done" ELSE "idle"
    /\ outcome' = IF avoid.exits THEN "ObstacleUnresolved" ELSE outcome
    /\ UNCHANGED <<waypoints, erp, index, data_df, current_coordinates,
                   desired_coordinates, reported, reads>>
    /\ UNCHANGED ctlVars

\* A call of patrol_square_area(boat, current, desired, erp) up to its
\* first read of the control mode (lines 118-126).
PatrolSquareArea(current, desired) ==
    /\ pc = "idle"
    /\ current_coordinates' = current
    /\ desired_coordinates' = desired
    /\ issued' = {"set_station_keep_mode", "send_waypoints"}
    /\ overlap' = (outstanding # "none")
    /\ outstanding' = "Station Keep"
    /\ pc' = "patrol_poll"
    /\ avoid_calls' = <<>>
    /\ UNCHANGED <<waypoints, erp, index, data_df, outcome, reported, reads>>
    /\ UNCHANGED ctlVars

\* patrol_square_area, one pass of `while boat.get_control_mode() !=
\* 'Waypoint': boat.set_waypoint_mode()` (lines 127-128).
patrol_square_area(m) ==
    /\ pc = "patrol_poll"
    /\ reported' = m
    /\ reads' = 1 - reads
    /\ IF m # "Waypoint"
       THEN /\ pc' = "patrol_poll"
            /\ issued' = {"get_control_mode", "set_waypoint_mode"}
            /\ overlap' = (Observe(outstanding, m) # "none")
            /\ outstanding' = "Waypoint"
       ELSE /\ pc' = "idle"
            /\ issued' = {"get_control_mode"}
            /\ overlap' = FALSE
            /\ outstanding' = Observe(outstanding, m)
    /\ avoid_calls' = <<>>
    /\ UNCHANGED <<waypoints, erp, index, data_df, current_coordinates,
                   desired_coordinates, outcome>>
    /\ UNCHANGED ctlVars

\* tolerance_meters is a Python float: a power of two 2^exp, inf or nan.
\* Integers are exact in a float up to 2^MantissaBits.
MantissaBits == 53
Tolerances ==
    {[kind |-> "finite", exp |-> e] : e \in {1, MantissaBits - 1, MantissaBits}}
        \cup {[kind |-> "inf", exp |-> 0], [kind |-> "nan", exp |-> 0]}

\* tolerance_meters + 1 > tolerance_meters in float arithmetic (lines 84,
\* 86): inf + 1 is inf, no comparison with nan holds, and from 2^53 on the
\* sum rounds back to tolerance_meters.
DistAboveTolerance(tolerance_meters) ==
    tolerance_meters.kind = "finite" /\ tolerance_meters.exp < MantissaBits

\* A call of load_and_send_waypoint (lines 72-88): send_waypoints, then the
\* loop test reads the control mode.  The body runs when the read does not
\* report Waypoint and dist, which starts as tolerance_meters + 1, is above
\* tolerance_meters; its first statement formats dist with the text after
\* the colon of `{dist := ...}` as the format specification, which raises
\* ValueError: set_waypoint_mode (line 88) is not reached.
load_and_send_waypoint(m, tolerance_meters) ==
    LET enters == m # "Waypoint" /\ DistAboveTolerance(tolerance_meters) IN
    /\ pc = "idle"
    /\ reported' = m
    /\ reads' = 1 - reads
    /\ issued' = {"send_waypoints", "get_control_mode"}
    /\ outstanding' = Observe(outstanding, m)
    /\ overlap' = FALSE
    /\ pc' = IF enters THEN "done" ELSE "idle"
    /\ outcome' = IF enters THEN "ValueError" ELSE outcome
    /\ avoid_calls' = <<>>
    /\ UNCHANGED <<waypoints, erp, index, data_df, current_coordinates,
                   desired_coordinates>>
    /\ UNCHANGED ctlVars

\* The caller has the plan's ERP and has called nothing yet.
Caller ==
    /\ waypoints = <<>>
    /\ erp \in ErpLists
    /\ index = 0
    /\ data_df = <<>>
    /\ current_coordinates = 0
    /\ desired_coordinates = 0
    /\ pc = "idle"
    /\ outcome = "running"
    /\ issued = {}
    /\ reported = "unset"
    /\ reads = 0
    /\ outstanding = "none"
    /\ overlap = FALSE
    /\ avoid_calls = <<>>

\* The caller's next call.  avoid_obstacle is called with either answer of
\* the clearance check it consults (is_clear's contract, lines 44-52:
\* "True if the path is clear, False otherwise").
FunctionNext ==
    \/ AvoidObstacle
    \/ \E clear_after_wait \in BOOLEAN : AvoidObstacleAfterWait(clear_after_wait)
    \/ \E current \in Positions, desired \in WaypointSites :
           PatrolSquareArea(current, desired)
    \/ \E m \in Modes : patrol_square_area(m)
    \/ \E m \in Modes, tolerance_meters \in Tolerances :
           load_and_send_waypoint(m, tolerance_meters)

\* ------------------------------------------------------------------------
\* ObstacleAvoiderController
\*
\* Distances are whole multiples of 1/DistScale metre.  Angles in radians
\* are counted in the unit pi/(2*HalfPi); an angle of the model is a
\* fraction <<n, d>> of such units, d > 0.  A scan holds the numbers the
\* caller passes: whole units of radians for a controller that takes
\* radians, whole degrees for a controller with deg2rad.  A field of view
\* is kept exactly, as the record [care, diff2] that stands for
\*     care + sqrt(diff2 / DistScale) * adaptive_fov_factor     (units),
\* adaptive_fov_factor = (HalfPi - care) / (safe_dist / DistScale);
\* comparisons with it are decided by squaring.
\* ------------------------------------------------------------------------
HalfPi == 2

HalfFovs == 0..(HalfPi + 1) \cup {3 * HalfPi}
SafeDists == 0..MaxSafe
IgnoreDists == -1..1
TDefaults == {0, 2}
KThetas == {-1, 0, 1}
Distances == 0..MaxSafe
Angles == (-HalfPi - 1)..(3 * HalfPi)
\* Degree values: the same directions, and a few degrees off the bow.
DegreeAngles == {(90 \div HalfPi) * u : u \in Angles} \cup {-2, 2, 4}
ScanAngles(deg2rad) == IF deg2rad THEN DegreeAngles ELSE Angles

NoScan == [distances |-> <<>>, angles |-> <<>>]
NotCalled == [kind |-> "not called"]
None == [kind |-> "None"]

\* L <= R * sqrt(K), for integers L, R and K >= 0.
LeqRootMultiple(L, R, K) ==
    IF R >= 0 THEN L <= 0 \/ L * L <= R * R * K
              ELSE L <= 0 /\ L * L >= R * R * K

\* qn/qd <= fov and fov <= qn/qd, for a fraction of angle units (qd > 0).
AtMostFov(qn, qd, fov, safe_dist) ==
    LeqRootMultiple((qn - qd * fov.care) * safe_dist,
                    qd * (HalfPi - fov.care), fov.diff2 * DistScale)
FovAtMost(fov, qn, qd, safe_dist) ==
    LeqRootMultiple(-((qn - qd * fov.care) * safe_dist),
                    -(qd * (HalfPi - fov.care)), fov.diff2 * DistScale)

\* The number a of a scan read as radians, as it is when it is not
\* converted: a fraction of angle units.  For a controller that takes
\* radians a counts units.  A degree value a read as radians is
\* a * 2 * HalfPi / pi units, with 22/7 for pi (no comparison of the model
\* is that close).
AngleAsGiven(deg2rad, a) == IF deg2rad THEN <<7 * HalfPi * a, 11>> ELSE <<a, 1>>

\* np.deg2rad and the wrap of line 107, into [-pi, pi): a degrees are
\* a * HalfPi / 90 units.
WrapAngle(a) ==
    <<((a * HalfPi + 2 * HalfPi * 90) % (4 * HalfPi * 90)) - 2 * HalfPi * 90, 90>>

\* __init__ (lines 28-47); care_fov is given as 2 * half_fov.
ControllerInit(half_fov, safe_dist, T_default, k_theta, adaptive_fov, ignore_dist, deg2rad) ==
    [care_fov |-> half_fov,
     safe_dist |-> safe_dist,
     T_default |-> T_default,
     k_theta |-> k_theta,
     adaptive_fov |-> adaptive_fov,
     ignore_dist |-> ignore_dist,
     deg2rad |-> deg2rad,
     _upd_care_fov |-> [care |-> half_fov, diff2 |-> 0],
     _min_distance |-> safe_dist]

\* The check of line 28.
InvalidParameters(half_fov, safe_dist, T_default, ignore_dist) ==
    2 * half_fov <= 0 \/ safe_dist <= 0 \/ T_default <= 0 \/ ignore_dist < 0

\* _adaptive_angle (lines 52-65).
_adaptive_angle(obj, min_distance) ==
    IF min_distance >= obj.safe_dist
    THEN [care |-> obj.care_fov, diff2 |-> 0]
    ELSE [care |-> obj.care_fov, diff2 |-> obj.safe_dist - min_distance]

SeqMin(seq, initial) ==
    LET m[i \in 0..Len(seq)] ==
            IF i = 0 THEN initial ELSE Min2(seq[i], m[i - 1])
    IN m[Len(seq)]

\* seq[mask] of numpy: the elements of seq where mask holds, in order.
\* numpy checks the length of the mask against seq unless the mask is
\* empty, which selects nothing.
MaskFits(n, mask_len) == mask_len = n \/ mask_len = 0
Masked(seq, mask) ==
    LET f[i \in 0..Len(mask)] ==
            IF i = 0 THEN <<>>
            ELSE IF mask[i] THEN Append(f[i - 1], seq[i]) ELSE f[i - 1]
    IN f[Len(mask)]

\* The distance test of is_clear (line 80).
valid_distance_AtMostSafe(obj, d) == d > obj.ignore_dist /\ d <= obj.safe_dist
valid_distance(obj, d) == d > obj.ignore_dist /\ d < obj.safe_dist

\* numpy combines two one-dimensional arrays of n and m elements
\* elementwise when n = m or one of them has a single element, which is
\* then repeated; otherwise the operation raises ValueError.
Broadcastable(n, m) == n = m \/ n = 1 \/ m = 1
BroadcastLen(n, m) == IF n = 1 THEN m ELSE n
Elem(seq, i) == IF Len(seq) = 1 THEN seq[1] ELSE seq[i]

NoError == "no error"
Raised(kind) == [kind |-> kind]

\* is_clear (lines 67-91): [raised |-> the exception, if any,
\* ret |-> <<clear, filtered_distances, filtered_angles>>].
\* The angles are those of lidar_measurements as passed in.  Indexing an
\* array with a boolean mask that does not fit raises IndexError.
controller_is_clear(obj, lidar_measurements) ==
    LET distances == lidar_measurements.distances
        angles == lidar_measurements.angles
        n == Len(distances)
        m == Len(angles)
        combined_mask == [i \in 1..BroadcastLen(n, m) |->
            LET q == AngleAsGiven(obj.deg2rad, Elem(angles, i))
            IN /\ valid_distance(obj, Elem(distances, i))
               /\ AtMostFov(-q[1], q[2], obj._upd_care_fov, obj.safe_dist)
               /\ AtMostFov(q[1], q[2], obj._upd_care_fov, obj.safe_dist)]
    IN IF ~Broadcastable(n, m)
       THEN [raised |-> "ValueError", ret |-> <<>>]
       ELSE IF \A i \in 1..BroadcastLen(n, m) : ~combined_mask[i]
       THEN [raised |-> NoError, ret |-> <<TRUE, <<>>, <<>>>>]
       ELSE IF ~MaskFits(n, BroadcastLen(n, m)) \/ ~MaskFits(m, BroadcastLen(n, m))
       THEN [raised |-> "IndexError", ret |-> <<>>]
       ELSE [raised |-> NoError,
             ret |-> <<FALSE, Masked(distances, combined_mask),
                       Masked(angles, combined_mask)>>]

Sign(x) == IF x > 0 THEN 1 ELSE IF x < 0 THEN -1 ELSE 0

SeqSum(seq) ==
    LET t[i \in 0..Len(seq)] == IF i = 0 THEN 0 ELSE seq[i] + t[i - 1]
    IN t[Len(seq)]

\* np.mean(filtered_angles) (line 129) as a fraction <<n, d>> of angle
\* units, d > 0; the angles are the numbers is_clear was given.
MeanAngle(deg2rad, filtered_angles) ==
    LET q == AngleAsGiven(deg2rad, 1)
    IN <<q[1] * SeqSum(filtered_angles), q[2] * Len(filtered_angles)>>

\* thrust (line 141) as a fraction <<n, d>>, d > 0:
\* T_default * min(nearest_dist / safe_dist, 0.5).
Thrust_Uncapped(obj, nearest_dist) == <<obj.T_default * nearest_dist, obj.safe_dist>>
Thrust(obj, nearest_dist) ==
    IF 2 * nearest_dist <= obj.safe_dist
    THEN <<obj.T_default * nearest_dist, obj.safe_dist>>
    ELSE <<obj.T_default, 2>>

\* thrust_diff (lines 133-139) as a fraction <<n, d>>, d > 0:
\* -sign(mean) * k_theta * (1 - |mean / pi|) * (safe_dist / nearest_dist).
ThrustDiff_SignKept(obj, nearest_dist, mean_angle) ==
    <<Sign(mean_angle[1]) * obj.k_theta
        * (2 * HalfPi * mean_angle[2] - Abs(mean_angle[1])) * obj.safe_dist,
      2 * HalfPi * mean_angle[2] * nearest_dist>>
ThrustDiff(obj, nearest_dist, mean_angle) ==
    <<-Sign(mean_angle[1]) * obj.k_theta
        * (2 * HalfPi * mean_angle[2] - Abs(mean_angle[1])) * obj.safe_dist,
      2 * HalfPi * mean_angle[2] * nearest_dist>>

\* The command of lines 126-144 for the obstacles is_clear kept.
Control(obj, filtered_distances, filtered_angles) ==
    LET nearest_dist == SeqMin(filtered_distances, filtered_distances[1])
        mean_angle == MeanAngle(obj.deg2rad, filtered_angles)
    IN [kind |-> "control",
        nearest_dist |-> nearest_dist,
        mean_angle |-> mean_angle,
        thrust |-> Thrust(obj, nearest_dist),
        thrust_diff |-> ThrustDiff(obj, nearest_dist, mean_angle)]

\* compute_control (lines 93-144): [self |-> the object afterwards,
\* ret |-> None, the command, or the exception raised].
compute_control(obj, lidar_measurements) ==
    LET distances == lidar_measurements.distances
        n == Len(distances)
        m == Len(lidar_measurements.angles)
        angles == IF obj.deg2rad
                  THEN [i \in 1..m |-> WrapAngle(lidar_measurements.angles[i])]
                  ELSE [i \in 1..m |-> <<lidar_measurements.angles[i], 1>>]
        forward == [i \in 1..BroadcastLen(n, m) |->
                       /\ -HalfPi * Elem(angles, i)[2] <= Elem(angles, i)[1]
                       /\ Elem(angles, i)[1] <= HalfPi * Elem(angles, i)[2]
                       /\ Elem(distances, i) > obj.ignore_dist]
        min_distance == SeqMin(Masked(distances, forward), obj.safe_dist)
        after == IF obj.adaptive_fov
                 THEN [obj EXCEPT !._upd_care_fov = _adaptive_angle(obj, min_distance)]
                 ELSE obj
        cleared == controller_is_clear(after, lidar_measurements)
    IN IF obj.adaptive_fov /\ ~Broadcastable(n, m)
       THEN [self |-> obj, ret |-> Raised("ValueError")]
       ELSE IF obj.adaptive_fov /\ ~MaskFits(n, BroadcastLen(n, m))
       THEN [self |-> obj, ret |-> Raised("IndexError")]
       ELSE IF cleared.raised # NoError
       THEN [self |-> after, ret |-> Raised(cleared.raised)]
       ELSE [self |-> after,
             ret |-> IF cleared.ret[1] THEN None
                     ELSE Control(after, cleared.ret[2], cleared.ret[3])]

CtlInit ==
    /\ \E half_fov \in HalfFovs, safe_dist \in SafeDists, ignore_dist \in IgnoreDists,
          T_default \in TDefaults, k_theta \in KThetas,
          adaptive_fov \in BOOLEAN, deg2rad \in BOOLEAN :
          /\ self = ControllerInit(half_fov, safe_dist, T_default, k_theta,
                                   adaptive_fov, ignore_dist, deg2rad)
          /\ ctl_pc = IF InvalidParameters(half_fov, safe_dist, T_default, ignore_dist)
                      THEN "ValueError" ELSE "ready"
    /\ lidar = NoScan
    /\ call = NoScan
    /\ result = NotCalled

\* The caller has taken the result; the next control cycle begins.
NextCycle ==
    /\ ctl_pc \in {"returned", "raised"}
    /\ ctl_pc' = "ready"
    /\ call' = NoScan
    /\ result' = NotCalled
    /\ UNCHANGED <<self, lidar>>
    /\ UNCHANGED missionVars

\* The scan of the coming control cycle gets a distance without an angle.
SenseDistance(d) ==
    /\ ctl_pc = "ready"
    /\ Len(lidar.distances) < MaxLen
    /\ lidar' = [lidar EXCEPT !.distances = Append(@, d)]
    /\ UNCHANGED <<ctl_pc, call, result, self>>
    /\ UNCHANGED missionVars

\* The scan of the coming control cycle gets an angle without a distance.
SenseAngle(a) ==
    /\ ctl_pc = "ready"
    /\ Len(lidar.angles) < MaxLen
    /\ lidar' = [lidar EXCEPT !.angles = Append(@, a)]
    /\ UNCHANGED <<ctl_pc, call, result, self>>
    /\ UNCHANGED missionVars

\* The sensor adds one reading to the scan of the coming control cycle.
Sense(d, a) ==
    /\ ctl_pc = "ready"
    /\ Len(lidar.distances) < MaxLen
    /\ Len(lidar.angles) < MaxLen
    /\ lidar' = [distances |-> Append(lidar.distances, d),
                 angles |-> Append(lidar.angles, a)]
    /\ ctl_pc' = "ready"
    /\ call' = NoScan
    /\ result' = NotCalled
    /\ self' = self
    /\ UNCHANGED missionVars

\* compute_control is called with the scan.
ComputeControl ==
    /\ ctl_pc = "ready"
    /\ LET r == compute_control(self, lidar)
       IN /\ self' = r.self
          /\ result' = r.ret
    /\ call' = lidar
    /\ lidar' = NoScan
    /\ ctl_pc' = IF compute_control(self, lidar).ret.kind \in {"ValueError", "IndexError"}
                 THEN "raised" ELSE "returned"
    /\ UNCHANGED missionVars


\* The mission does not construct a controller (waypoint_mission.py never
\* imports obstacle_avoider): in the mission's runs there is none.
NoController ==
    /\ self = ControllerInit(1, 1, 1, 1, FALSE, 0, FALSE)
    /\ ctl_pc = "ValueError"
    /\ lidar = NoScan
    /\ call = NoScan
    /\ result = NotCalled

\* The controller's runs have no mission.
NoMission ==
    /\ MissionInit
    /\ waypoints = <<>>
    /\ erp = <<MaxPos>>

AvoiderInit == CtlInit /\ NoMission
AvoiderNext ==
    \/ \E d \in Distances, a \in ScanAngles(self.deg2rad) : Sense(d, a)
    \/ \E d \in Distances : SenseDistance(d)
    \/ \E a \in ScanAngles(self.deg2rad) : SenseAngle(a)
    \/ ComputeControl
    \/ NextCycle
AvoiderSpec == AvoiderInit /\ [][AvoiderNext]_vars

Init == MissionInit /\ NoController
Next == MissionNext
Spec == Init /\ [][Next]_vars

\* The program keeps running: every call on the vehicle returns.  Every
\* step of main makes a call (reads counts the reads of the control mode),
\* so the vehicle may report the same mode for ever.
LiveSpec == Init /\ [][Next]_vars /\ WF_vars(Next)

FunctionInit == Caller /\ NoController
FunctionSpec == FunctionInit /\ [][FunctionNext]_vars

\* ------------------------------------------------------------------------
\* Properties of the mission executor
\* ------------------------------------------------------------------------
Terminated == pc = "done"
MissionSuccess == pc = "done" /\ outcome = "MissionSuccess"

\* C2: index changes only in a successful arrival evaluation, by one; in
\* particular a run with a one-waypoint plan whose vehicle is at the waypoint
\* ends with MissionSuccess and index = 1.
C2_IndexOnlyOnArrival ==
    /\ index \in {0, 1}
    /\ (Terminated /\ Len(waypoints) = 1 /\ data_df = <<waypoints[1]>>) =>
           (MissionSuccess /\ index = 1)

\* C3: a failed arrival evaluation leaves index unchanged and the waypoint
\* is requested again; a run in which no arrival evaluation has succeeded
\* (index is still 0, with waypoints left) never reaches a terminal outcome.
C3_FailedArrivalRetriedForever ==
    (index = 0 /\ Len(waypoints) > 0) => ~Terminated

\* The hypotheses of C4 on the vehicle: no read ever reports Go To ERP, and
\* after each go-to-waypoint request a read reports Station Keep.
NeverReportsErp == [](reported # "Go To ERP")
ReportsStationKeep == ("go_to_waypoint" \in issued) ~> (reported = "Station Keep")
RunSucceeds == (pc # "start") ~> (MissionSuccess /\ index = Len(waypoints))

\* C4: if the vehicle never reports Go To ERP and after each go-to-waypoint
\* request eventually reports Station Keep with the position within
\* tolerance, main ends with success and index = len(waypoints).
C4_RunSucceeds == (NeverReportsErp /\ ReportsStationKeep) => RunSucceeds

\* C8: no mode-change request is issued while an earlier one is still
\* outstanding (not yet reported by a read of the control mode), in
\* avoid_obstacle, patrol_square_area and load_and_send_waypoint.
C8_NoOverlappingModeChange == ~overlap

\* C15: avoid_obstacle requests Standby first, then waits, then re-checks
\* clearance; when still not clear it requests Go To ERP and the process
\* exits with the abort outcome without a request for Waypoint; when clear
\* it requests Waypoint and returns without a request for Go To ERP.
C15_AvoidObstacleOrder ==
    avoid_calls # <<>> =>
        /\ avoid_calls[1] = "set_standby_mode"
        /\ avoid_calls[2] = "time.sleep"
        /\ \/ /\ Len(avoid_calls) = 2
              /\ issued = {"set_standby_mode"}
              /\ pc = "avoid_wait" /\ outcome = "running"
           \/ /\ Len(avoid_calls) = 4
              /\ avoid_calls[3] = "is_clear -> False"
              /\ avoid_calls[4] = "set_erp_mode"
              /\ issued = {"set_erp_mode"}
              /\ pc = "done" /\ outcome = "ObstacleUnresolved"
           \/ /\ Len(avoid_calls) = 4
              /\ avoid_calls[3] = "is_clear -> True"
              /\ avoid_calls[4] = "set_waypoint_mode"
              /\ issued = {"set_waypoint_mode"}
              /\ pc = "idle" /\ outcome = "running"
\* avoid_obstacle waited, found the path clear and resumed Waypoint mode.
C15_Witness ==
    /\ Len(avoid_calls) = 4
    /\ avoid_calls[3] = "is_clear -> True"
    /\ issued = {"set_waypoint_mode"}
    /\ pc = "idle"

\* C16: go_to_waypoint is issued only for waypoints[index] with
\* 0 <= index < len(waypoints); index never decreases; the waypoint and ERP
\* lists are never modified; with an empty waypoint list no request is
\* issued and the run ends with success.
C16_WaypointRequestsInOrder ==
    /\ [][/\ index' >= index
          /\ waypoints' = waypoints
          /\ erp' = erp
          /\ "go_to_waypoint" \in issued' => index < Len(waypoints)]_vars
    /\ []((Terminated /\ Len(waypoints) = 0) => MissionSuccess)

\* ------------------------------------------------------------------------
\* Properties of the obstacle avoider
\* ------------------------------------------------------------------------
\* compute_control has returned from a call whose scan has one angle for
\* every distance.
Returned == ctl_pc = "returned" /\ Len(call.distances) = Len(call.angles)

\* The angle of reading i of the latest call in radians (converted and
\* wrapped when the controller takes degrees), as a fraction of units.
RadianAngle(i) ==
    IF self.deg2rad THEN WrapAngle(call.angles[i]) ELSE <<call.angles[i], 1>>
InForwardHemisphere(i) ==
    /\ -HalfPi * RadianAngle(i)[2] <= RadianAngle(i)[1]
    /\ RadianAngle(i)[1] <= HalfPi * RadianAngle(i)[2]
    /\ call.distances[i] > self.ignore_dist

\* No reading of the forward hemisphere above ignore_dist is nearer than
\* safe_dist (in particular when there is no such reading).
ForwardClear ==
    \A i \in 1..Len(call.distances) :
        InForwardHemisphere(i) => call.distances[i] >= self.safe_dist

\* C9 as stated: whenever the forward hemisphere is clear compute_control
\* returns None, for every accepted configuration, adaptive or not.
C9_Original == (Returned /\ ForwardClear) => result = None

\* C9, amended: whenever the forward hemisphere is clear compute_control
\* returns None, adaptive or not, for every accepted configuration whose
\* half field of view is at most pi/2.
C9_ForwardClearReturnsNone ==
    (Returned /\ ForwardClear /\ self.care_fov <= HalfPi) => result = None
C9_Witness ==
    /\ Returned /\ ForwardClear /\ self.care_fov = HalfPi /\ result = None
    /\ self.adaptive_fov
    /\ Len(call.distances) = 2
    /\ InForwardHemisphere(1) /\ call.distances[1] = self.safe_dist
    /\ ~InForwardHemisphere(2) /\ valid_distance(self, call.distances[2])

\* C10: with adaptive_fov, after every compute_control call _upd_care_fov
\* lies in [half_fov, pi/2].  Stated for the accepted configurations whose
\* half_fov is at most pi/2, where that interval is not empty.
C10_FovWithinRange ==
    (Returned /\ self.adaptive_fov /\ self.care_fov <= HalfPi) =>
        /\ AtMostFov(self.care_fov, 1, self._upd_care_fov, self.safe_dist)
        /\ FovAtMost(self._upd_care_fov, HalfPi, 1, self.safe_dist)

\* compute_control has returned a thrust command.
Commanded == Returned /\ result.kind = "control"

\* C11: whenever compute_control returns a command, its thrust lies in
\* [0, 0.5 * T_default], for every accepted configuration, ignore_dist = 0
\* included.
C11_ThrustWithinHalfDefault ==
    Commanded =>
        /\ result.thrust[1] >= 0
        /\ 2 * result.thrust[1] <= self.T_default * result.thrust[2]
\* A command with ignore_dist = 0 whose nearest obstacle is beyond half the
\* safe distance, so that the thrust is capped.
C11_Witness ==
    /\ Commanded /\ self.ignore_dist = 0
    /\ 2 * result.nearest_dist > self.safe_dist
    /\ 2 * result.thrust[1] = self.T_default * result.thrust[2]

\* Every angle of the scan of the latest call lies in (-pi, pi] (in
\* (-180, 180] degrees when the controller takes degrees).
AnglesInRange ==
    \A i \in 1..Len(call.angles) :
        IF self.deg2rad
        THEN -180 < call.angles[i] /\ call.angles[i] <= 180
        ELSE -2 * HalfPi < call.angles[i] /\ call.angles[i] <= 2 * HalfPi
\* Every number of the scan of the latest call, as passed to
\* compute_control (degree values not converted), lies in (-pi, pi].
NumbersInRange ==
    \A i \in 1..Len(call.angles) :
        LET q == AngleAsGiven(self.deg2rad, call.angles[i])
        IN -2 * HalfPi * q[2] < q[1] /\ q[1] <= 2 * HalfPi * q[2]
TurnsAway == Sign(result.thrust_diff[1]) = -Sign(result.mean_angle[1])

ConvertedCritical(i) ==
    /\ valid_distance(self, call.distances[i])
    /\ AtMostFov(-RadianAngle(i)[1], RadianAngle(i)[2], self._upd_care_fov, self.safe_dist)
    /\ AtMostFov(RadianAngle(i)[1], RadianAngle(i)[2], self._upd_care_fov, self.safe_dist)
ConvertedCriticalSum ==
    LET t[i \in 0..Len(call.distances)] ==
            IF i = 0 THEN 0
            ELSE (IF ConvertedCritical(i) THEN RadianAngle(i)[1] ELSE 0) + t[i - 1]
    IN t[Len(call.distances)]

\* C13: with degree input the field-of-view filter and the mean angle use
\* the converted angles, never the raw degree values: compute_control
\* returns None exactly when no reading is an obstacle by its converted
\* angle, and otherwise the mean angle has the sign of the mean of the
\* converted obstacle angles.
C13_FiltersUseConvertedAngles ==
    (Returned /\ self.deg2rad) =>
        /\ (result = None) <=> (\A i \in 1..Len(call.distances) : ~ConvertedCritical(i))
        /\ result # None => Sign(result.mean_angle[1]) = Sign(ConvertedCriticalSum)

\* compute_control was called with a scan whose distance and angle
\* sequences differ in length, and the call is over.
MalformedCall ==
    /\ ctl_pc \in {"returned", "raised"}
    /\ Len(call.distances) # Len(call.angles)

\* C14: a call with a scan whose two sequences differ in length always
\* fails with an error; it never returns None or a command.
C14_MalformedScanFails ==
    MalformedCall => result.kind \in {"ValueError", "IndexError"}

====
